---------------------------- MODULE Spec2Model ----------------------------
(***************************************************************************)
(* A model of the emotion-detector-js client (src/src/client.ts,           *)
(* src/src/errors.ts, src/src/types.ts): the validator, the request        *)
(* executor with its timeout timer and abort controller, the response      *)
(* transformer and the two public operations analyze and analyzeBatch.     *)
(*                                                                         *)
(* JavaScript values are tagged records; a JavaScript string is a sequence *)
(* of one-character strings, so that trim, split and parseInt are computed *)
(* character by character.  The raw text of an HTTP body is a TLA+ string  *)
(* and JSON.parse is its table over the bodies the mocked transport sends. *)
(***************************************************************************)
EXTENDS Integers, Sequences, FiniteSets

(***************************************************************************)
(* Bounds of the model.                                                    *)
(***************************************************************************)
\* number of calls issued concurrently on the one client instance
MaxCalls == 2
\* how far beyond a limit (words per text, texts per batch) the inputs go
MaxExtra == 1

(***************************************************************************)
(* Program constants.                                                      *)
(***************************************************************************)
DEFAULT_TIMEOUT == 30000
MAX_WORDS_PER_TEXT == 100
MAX_BATCH_SIZE == 10
RATE_LIMIT_STATUS == 429

\* 'https://itsKrish01-emotion-checker.hf.space', abbreviated to its scheme and host
DEFAULT_BASE_URL == <<"h", "f">>

(***************************************************************************)
(* JavaScript values.                                                      *)
(***************************************************************************)
Undef == [t |-> "undefined"]
Null == [t |-> "null"]
NaN == [t |-> "NaN"]
Num(n) == [t |-> "number", n |-> n]
Str(s) == [t |-> "string", s |-> s]
Arr(items) == [t |-> "array", items |-> items]
Obj(props) == [t |-> "object", props |-> props]

\* ToBoolean: what `!v` and `a || b` test
Truthy(v) ==
    CASE v.t = "undefined" -> FALSE
      [] v.t = "null" -> FALSE
      [] v.t = "NaN" -> FALSE
      [] v.t = "number" -> v.n # 0
      [] v.t = "string" -> Len(v.s) > 0
      [] OTHER -> TRUE

\* a || b
Or(a, b) == IF Truthy(a) THEN a ELSE b

\* a ?? b
Coalesce(a, b) == IF a.t \in {"undefined", "null"} THEN b ELSE a

(***************************************************************************)
(* Strings: String.prototype.trim, split(/\s+/), filter, parseInt.        *)
(***************************************************************************)
WhiteSpace == {" ", "\t", "\n"}

IsSpace(ch) == ch \in WhiteSpace

Min(S) == CHOOSE i \in S : \A j \in S : i <= j

Max(S) == CHOOSE i \in S : \A j \in S : j <= i

\* text.trim()
Trim(s) ==
    LET ink == {i \in 1..Len(s) : ~IsSpace(s[i])}
    IN  IF ink = {} THEN <<>> ELSE SubSeq(s, Min(ink), Max(ink))

\* text.split(/\s+/): the pieces between the maximal runs of white space, an
\* empty piece before a leading run and after a trailing one.  The text is
\* split by halves and the pieces joined at the cut: a run of white space
\* across the cut is one separator, anything else joins the two pieces that
\* touch the cut.
RECURSIVE SplitWs(_)
SplitWs(s) ==
    IF Len(s) = 0 THEN << <<>> >>
    ELSE IF Len(s) = 1 THEN (IF IsSpace(s[1]) THEN << <<>>, <<>> >> ELSE <<s>>)
    ELSE LET mid == Len(s) \div 2
             L == SplitWs(SubSeq(s, 1, mid))
             R == SplitWs(SubSeq(s, mid + 1, Len(s)))
         IN  IF IsSpace(s[mid]) /\ IsSpace(s[mid + 1])
             THEN SubSeq(L, 1, Len(L) - 1) \o Tail(R)
             ELSE SubSeq(L, 1, Len(L) - 1) \o <<L[Len(L)] \o Head(R)>> \o Tail(R)

NonEmptyWord(word) == Len(word) > 0

\* countWords(text)
countWords(text) == Len(SelectSeq(SplitWs(Trim(text)), NonEmptyWord))

\* the decimal digits of a natural number, as String(n) writes them
RECURSIVE DigitsOf(_)
DigitsOf(n) ==
    LET d == <<"0", "1", "2", "3", "4", "5", "6", "7", "8", "9">>[(n % 10) + 1]
    IN  IF n < 10 THEN <<d>> ELSE Append(DigitsOf(n \div 10), d)

DigitValue(ch) ==
    CASE ch = "0" -> 0 [] ch = "1" -> 1 [] ch = "2" -> 2 [] ch = "3" -> 3
      [] ch = "4" -> 4 [] ch = "5" -> 5 [] ch = "6" -> 6 [] ch = "7" -> 7
      [] ch = "8" -> 8 [] ch = "9" -> 9 [] OTHER -> -1

IsDigit(ch) == DigitValue(ch) >= 0

\* the value of the longest prefix of digits of s from position i on, read
\* after the value acc of the digits before it
RECURSIVE DigitPrefix(_, _, _)
DigitPrefix(s, i, acc) ==
    IF i > Len(s) \/ ~IsDigit(s[i]) THEN acc
    ELSE DigitPrefix(s, i + 1, acc * 10 + DigitValue(s[i]))

\* parseInt(s, 10): leading white space is skipped, then an optional sign,
\* then the longest run of digits; NaN when there is no digit there
parseInt(s) ==
    LET ink == {i \in 1..Len(s) : ~IsSpace(s[i])}
        start == IF ink = {} THEN Len(s) + 1 ELSE Min(ink)
        signed == start <= Len(s) /\ s[start] \in {"+", "-"}
        first == IF signed THEN start + 1 ELSE start
    IN  IF first > Len(s) \/ ~IsDigit(s[first]) THEN NaN
        ELSE IF signed /\ s[start] = "-" THEN Num(0 - DigitPrefix(s, first, 0))
        ELSE Num(DigitPrefix(s, first, 0))

\* a string written as a template literal: its text and the numbers put in it
Tpl(text, nums) == [t |-> "string", tpl |-> text, nums |-> nums]

\* String(v), as the Error constructor applies it to its message
RECURSIVE ToString(_)
ToString(v) ==
    CASE v.t = "string" -> v
      [] v.t = "number" ->
            Str(IF v.n < 0 THEN <<"-">> \o DigitsOf(0 - v.n) ELSE DigitsOf(v.n))
      [] v.t = "NaN" -> Str(<<"N", "a", "N">>)
      [] v.t = "null" -> Str(<<"n", "u", "l", "l">>)
      [] v.t = "undefined" -> Str(<<>>)
      [] v.t = "array" ->
            IF Len(v.items) = 0 THEN Str(<<>>)
            ELSE IF Len(v.items) = 1 THEN
                (IF v.items[1].t \in {"null", "undefined"} THEN Str(<<>>)
                 ELSE ToString(v.items[1]))
            ELSE Str(ToString(Arr(SubSeq(v.items, 1, Len(v.items) - 1))).s
                     \o <<",">> \o ToString(Arr(<<v.items[Len(v.items)]>>)).s)
      [] OTHER -> Str(<<"[", "o", "b", "j", "e", "c", "t", " ", "O", "b", "j", "e", "c", "t", "]">>)

\* o.k for a value that is neither null nor undefined
Get(o, k) ==
    IF o.t = "object" /\ k \in DOMAIN o.props THEN o.props[k] ELSE Undef

\* whether reading a property of o throws a TypeError
Nullish(o) == o.t \in {"null", "undefined"}

(***************************************************************************)
(* The error taxonomy (errors.ts) and the errors the platform throws.      *)
(***************************************************************************)
NoError == [class |-> "none"]

ValidationError(message, field) ==
    [class |-> "ValidationError", message |-> message, field |-> field]

RateLimitError(message, retryAfter) ==
    [class |-> "RateLimitError", message |-> message,
     statusCode |-> RATE_LIMIT_STATUS, retryAfter |-> retryAfter]

ApiError(message, statusCode, responseBody) ==
    [class |-> "ApiError", message |-> ToString(message),
     statusCode |-> statusCode, responseBody |-> responseBody]

TimeoutError(timeout) ==
    [class |-> "TimeoutError",
     message |-> Tpl("Request timed out after ${timeout}ms", <<timeout>>),
     timeout |-> timeout]

NetworkError(message, cause) ==
    [class |-> "NetworkError", message |-> message, cause |-> cause]

\* error instanceof EmotionAnalyzerError
IsEmotionAnalyzerError(e) ==
    e.class \in {"ValidationError", "RateLimitError", "ApiError",
                 "TimeoutError", "NetworkError"}

\* what fetch rejects with once the controller's signal is aborted
AbortError == [class |-> "DOMException", name |-> "AbortError", isError |-> TRUE,
               message |-> Tpl("This operation was aborted", <<>>)]

\* what fetch and the body readers reject with on a failure of the network
FetchTypeError == [class |-> "TypeError", name |-> "TypeError", isError |-> TRUE,
                   message |-> Tpl("fetch failed", <<>>)]

\* what JSON.parse throws on a text that is not JSON
JsonSyntaxError == [class |-> "SyntaxError", name |-> "SyntaxError", isError |-> TRUE,
                    message |-> Tpl("Unexpected token in JSON", <<>>)]

\* any other Error a transport may throw
OtherError == [class |-> "Error", name |-> "Error", isError |-> TRUE,
               message |-> Tpl("socket hang up", <<>>)]

\* a thrown value that is no Error object
ThrownString == [class |-> "string", name |-> "", isError |-> FALSE,
                 message |-> Tpl("boom", <<>>)]

\* what reading a property of null or undefined throws
PropertyTypeError == [class |-> "TypeError", name |-> "TypeError", isError |-> TRUE,
                      message |-> Tpl("Cannot read properties of null", <<>>)]

(***************************************************************************)
(* The validator.                                                          *)
(***************************************************************************)
\* validateText with the limit tested by >= for >
validateTextOffByOne(text) ==
    IF ~Truthy(text) \/ text.t # "string"
    THEN ValidationError(Tpl("Text is required and must be a string", <<>>), "text")
    ELSE LET trimmedText == Trim(text.s)
         IN  IF Len(trimmedText) = 0
             THEN ValidationError(Tpl("Text cannot be empty", <<>>), "text")
             ELSE LET wordCount == countWords(trimmedText)
                  IN  IF wordCount >= MAX_WORDS_PER_TEXT
                      THEN ValidationError(
                               Tpl("Text exceeds maximum word limit. Got ${wordCount} words, maximum is ${MAX_WORDS_PER_TEXT}",
                                   <<wordCount, MAX_WORDS_PER_TEXT>>), "text")
                      ELSE NoError

\* validateText(text): the error it throws, NoError when it returns
validateText(text) ==
    IF ~Truthy(text) \/ text.t # "string"
    THEN ValidationError(Tpl("Text is required and must be a string", <<>>), "text")
    ELSE LET trimmedText == Trim(text.s)
         IN  IF Len(trimmedText) = 0
             THEN ValidationError(Tpl("Text cannot be empty", <<>>), "text")
             ELSE LET wordCount == countWords(trimmedText)
                  IN  IF wordCount > MAX_WORDS_PER_TEXT
                      THEN ValidationError(
                               Tpl("Text exceeds maximum word limit. Got ${wordCount} words, maximum is ${MAX_WORDS_PER_TEXT}",
                                   <<wordCount, MAX_WORDS_PER_TEXT>>), "text")
                      ELSE NoError

\* the callback of texts.forEach in validateBatchTexts, for one element
validateElement(text, index) ==
    IF ~Truthy(text) \/ text.t # "string"
    THEN ValidationError(
             Tpl("Text at index ${index} is required and must be a string", <<index>>), "texts")
    ELSE LET trimmedText == Trim(text.s)
         IN  IF Len(trimmedText) = 0
             THEN ValidationError(
                      Tpl("Text at index ${index} cannot be empty", <<index>>), "texts")
             ELSE LET wordCount == countWords(trimmedText)
                  IN  IF wordCount > MAX_WORDS_PER_TEXT
                      THEN ValidationError(
                               Tpl("Text at index ${index} exceeds maximum word limit. Got ${wordCount} words, maximum is ${MAX_WORDS_PER_TEXT}",
                                   <<index, wordCount, MAX_WORDS_PER_TEXT>>), "texts")
                      ELSE NoError

\* forEachValidate going on after a failing element: the last failure is thrown
forEachValidateLast(items, i) ==
    LET failing == {j \in i..Len(items) : validateElement(items[j], j - 1) # NoError}
    IN  IF failing = {} THEN NoError
        ELSE validateElement(items[Max(failing)], Max(failing) - 1)

\* texts.forEach(...) from the element at position i on (index i - 1): the
\* first throw ends the loop
RECURSIVE forEachValidate(_, _)
forEachValidate(items, i) ==
    IF i > Len(items) THEN NoError
    ELSE LET err == validateElement(items[i], i - 1)
         IN  IF err # NoError THEN err ELSE forEachValidate(items, i + 1)

\* validateBatchTexts(texts): the error it throws, NoError when it returns
validateBatchTexts(texts) ==
    IF texts.t # "array"
    THEN ValidationError(Tpl("Texts must be an array", <<>>), "texts")
    ELSE IF Len(texts.items) = 0
    THEN ValidationError(Tpl("At least one text is required", <<>>), "texts")
    ELSE IF Len(texts.items) > MAX_BATCH_SIZE
    THEN ValidationError(
             Tpl("Batch size exceeds maximum limit. Got ${texts.length} texts, maximum is ${MAX_BATCH_SIZE}",
                 <<Len(texts.items), MAX_BATCH_SIZE>>), "texts")
    ELSE forEachValidate(texts.items, 1)


(***************************************************************************)
(* The bodies the mocked transport sends, and JSON.parse of them.          *)
(***************************************************************************)
Joy == Str(<<"j", "o", "y">>)
Sad == Str(<<"s", "a", "d">>)
Boom == Str(<<"b", "o", "o", "m">>)
Bad == Str(<<"b", "a", "d">>)
Oops == Str(<<"o", "o", "p", "s">>)

WireJoy ==
    Obj([primary_emotion |-> Joy, confidence |-> Num(1),
         all_emotions |-> Arr(<<Obj([emotion |-> Joy, score |-> Num(1)])>>)])

WireSad ==
    Obj([primary_emotion |-> Sad, confidence |-> Num(0),
         all_emotions |-> Arr(<<Obj([emotion |-> Sad, score |-> Num(0)]),
                                Obj([emotion |-> Joy, score |-> Num(0)])>>)])

TextJoy == "{\"primary_emotion\":\"joy\",\"confidence\":1,\"all_emotions\":[{\"emotion\":\"joy\",\"score\":1}]}"
TextSad == "{\"primary_emotion\":\"sad\",\"confidence\":0,\"all_emotions\":[{\"emotion\":\"sad\",\"score\":0},{\"emotion\":\"joy\",\"score\":0}]}"
TextBatchJoySad == "{\"results\":[<joy>,<sad>],\"count\":2}"
TextBatchSadJoy == "{\"results\":[<sad>,<joy>],\"count\":2}"
TextBatchJoyCount5 == "{\"results\":[<joy>],\"count\":5}"
TextBatchJoySadCount1 == "{\"results\":[<joy>,<sad>],\"count\":1}"
TextBatchNoCount == "{\"results\":[<joy>]}"
TextBatchEmpty == "{\"results\":[],\"count\":0}"
TextBatchNullItem == "{\"results\":[null],\"count\":1}"
TextBatchNoResults == "{\"count\":1}"

\* the texts that are no JSON
NotJsonTexts == {"", "<html>Bad Gateway</html>", "{\"detail\":"}

\* JSON.parse(text): the value, for a text that is JSON
JsonValue(text) ==
    CASE text = "null" -> Null
      [] text = "42" -> Num(42)
      [] text = "\"oops\"" -> Oops
      [] text = "[]" -> Arr(<<>>)
      [] text = "{}" -> Obj(<<>>)
      [] text = "{\"detail\":\"boom\"}" -> Obj([detail |-> Boom])
      [] text = "{\"message\":\"bad\"}" -> Obj([message |-> Bad])
      [] text = "{\"error\":\"oops\"}" -> Obj([error |-> Oops])
      [] text = "{\"detail\":\"boom\",\"message\":\"bad\",\"error\":\"oops\"}" ->
            Obj([detail |-> Boom, message |-> Bad, error |-> Oops])
      [] text = "{\"message\":\"bad\",\"error\":\"oops\"}" ->
            Obj([message |-> Bad, error |-> Oops])
      [] text = "{\"detail\":\"\",\"message\":\"bad\"}" ->
            Obj([detail |-> Str(<<>>), message |-> Bad])
      [] text = "{\"detail\":\"\",\"message\":\"\",\"error\":\"oops\"}" ->
            Obj([detail |-> Str(<<>>), message |-> Str(<<>>), error |-> Oops])
      [] text = "{\"detail\":\"\",\"message\":\"\",\"error\":\"\"}" ->
            Obj([detail |-> Str(<<>>), message |-> Str(<<>>), error |-> Str(<<>>)])
      [] text = "{\"detail\":null,\"error\":\"oops\"}" ->
            Obj([detail |-> Null, error |-> Oops])
      [] text = "{\"detail\":[{\"msg\":\"bad\"}]}" ->
            Obj([detail |-> Arr(<<Obj([msg |-> Bad])>>)])
      [] text = "{\"detail\":7}" -> Obj([detail |-> Num(7)])
      [] text = "{\"detail\":0,\"message\":\"bad\"}" ->
            Obj([detail |-> Num(0), message |-> Bad])
      [] text = TextJoy -> WireJoy
      [] text = TextSad -> WireSad
      [] text = TextBatchJoySad ->
            Obj([results |-> Arr(<<WireJoy, WireSad>>), count |-> Num(2)])
      [] text = TextBatchSadJoy ->
            Obj([results |-> Arr(<<WireSad, WireJoy>>), count |-> Num(2)])
      [] text = TextBatchJoyCount5 ->
            Obj([results |-> Arr(<<WireJoy>>), count |-> Num(5)])
      [] text = TextBatchJoySadCount1 ->
            Obj([results |-> Arr(<<WireJoy, WireSad>>), count |-> Num(1)])
      [] text = TextBatchNoCount -> Obj([results |-> Arr(<<WireJoy>>)])
      [] text = TextBatchEmpty -> Obj([results |-> Arr(<<>>), count |-> Num(0)])
      [] text = TextBatchNullItem ->
            Obj([results |-> Arr(<<Null>>), count |-> Num(1)])
      [] text = TextBatchNoResults -> Obj([count |-> Num(1)])

\* JSON.parse(text): whether it returns, and what
JSONParse(text) ==
    IF text \in NotJsonTexts THEN [ok |-> FALSE]
    ELSE [ok |-> TRUE, value |-> JsonValue(text)]

(***************************************************************************)
(* The response transformer.                                               *)
(***************************************************************************)
\* transformResponse reading allEmotions under its own name, not the wire's
transformResponseCamelCase(response) ==
    Obj([primaryEmotion |-> Get(response, "primary_emotion"),
         confidence |-> Get(response, "confidence"),
         allEmotions |-> Get(response, "allEmotions")])

\* transformResponse(response), for a response whose properties can be read
transformResponse(response) ==
    Obj([primaryEmotion |-> Get(response, "primary_emotion"),
         confidence |-> Get(response, "confidence"),
         allEmotions |-> Get(response, "all_emotions")])

\* the end of analyze, after the request returned: what it returns or throws
analyzeResult(response) ==
    IF Nullish(response)
    THEN [state |-> "rejected", error |-> PropertyTypeError]
    ELSE [state |-> "resolved", value |-> transformResponse(response)]

\* the end of analyzeBatch, after the request returned
analyzeBatchResult(response) ==
    IF Nullish(response)
    THEN [state |-> "rejected", error |-> PropertyTypeError]
    ELSE LET results == Get(response, "results")
         IN  IF results.t # "array"
                \/ \E i \in 1..Len(results.items) : Nullish(results.items[i])
             THEN [state |-> "rejected", error |-> PropertyTypeError]
             ELSE [state |-> "resolved",
                   value |-> Obj([results |-> Arr([i \in 1..Len(results.items) |->
                                             transformResponse(results.items[i])]),
                                  count |-> Get(response, "count")])]

(***************************************************************************)
(* The request executor: the pieces of request() between its awaits.       *)
(***************************************************************************)
\* response.ok
IsOk(status) == status >= 200 /\ status <= 299

\* clearTimeout(timeoutId): a timer that already ran stays as it is
clearTimeout(t) == IF t = "pending" THEN "cleared" ELSE t

\* the retryAfter argument of the RateLimitError
retryAfterOf(retryAfter) ==
    IF Truthy(retryAfter) THEN parseInt(retryAfter.s) ELSE Undef

\* errorMessageOf with message taken before detail
errorMessageOfMessageFirst(status, responseText) ==
    LET errorMessage == Tpl("API request failed with status ${response.status}", <<status>>)
        parsed == JSONParse(responseText)
    IN  IF ~parsed.ok \/ Nullish(parsed.value) THEN errorMessage
        ELSE Or(Or(Or(Get(parsed.value, "message"), Get(parsed.value, "detail")),
                   Get(parsed.value, "error")), errorMessage)

\* the message of the ApiError
errorMessageOf(status, responseText) ==
    LET errorMessage == Tpl("API request failed with status ${response.status}", <<status>>)
        parsed == JSONParse(responseText)
    IN  IF ~parsed.ok \/ Nullish(parsed.value) THEN errorMessage
        ELSE Or(Or(Or(Get(parsed.value, "detail"), Get(parsed.value, "message")),
                   Get(parsed.value, "error")), errorMessage)

\* what the block of `if (!response.ok)` throws
errorOfResponse(status, retryAfter, responseText) ==
    IF status = RATE_LIMIT_STATUS
    THEN RateLimitError(
             Tpl("Rate limit exceeded. Please wait before making more requests.", <<>>),
             retryAfterOf(retryAfter))
    ELSE ApiError(errorMessageOf(status, responseText), status, responseText)

\* catchClause with the TimeoutError built from the default timeout
catchClauseDefaultTimeout(error, timeout) ==
    IF IsEmotionAnalyzerError(error) THEN error
    ELSE IF error.isError /\ error.name = "AbortError" THEN TimeoutError(DEFAULT_TIMEOUT)
    ELSE IF error.class = "TypeError"
    THEN NetworkError(
             Tpl("Failed to connect to the API. Please check your network connection.", <<>>),
             error)
    ELSE NetworkError(
             IF error.isError THEN error.message
             ELSE Tpl("An unexpected error occurred", <<>>),
             IF error.isError THEN error ELSE Undef)

\* what the catch clause of request() throws for the error it caught
catchClause(error, timeout) ==
    IF IsEmotionAnalyzerError(error) THEN error
    ELSE IF error.isError /\ error.name = "AbortError" THEN TimeoutError(timeout)
    ELSE IF error.class = "TypeError"
    THEN NetworkError(
             Tpl("Failed to connect to the API. Please check your network connection.", <<>>),
             error)
    ELSE NetworkError(
             IF error.isError THEN error.message
             ELSE Tpl("An unexpected error occurred", <<>>),
             IF error.isError THEN error ELSE Undef)

(***************************************************************************)
(* The client.                                                             *)
(***************************************************************************)
\* s.replace(/\/$/, '')
StripTrailingSlash(s) ==
    IF Len(s) > 0 /\ s[Len(s)] = "/" THEN SubSeq(s, 1, Len(s) - 1) ELSE s

\* new EmotionAnalyzer(options)
Constructor(options) ==
    [baseUrl |-> StripTrailingSlash(Or(options.baseUrl, Str(DEFAULT_BASE_URL)).s),
     timeout |-> Coalesce(options.timeout, Num(DEFAULT_TIMEOUT)).n]

VARIABLES
    config,     \* the client's baseUrl and timeout
    args,       \* args[c]: the operation call c invokes and its argument
    transport,  \* transport[c]: what the transport does with the request of call c
    pc,         \* pc[c]: where call c stands
    timer,      \* timer[c]: the timer of setTimeout in call c
    aborted,    \* aborted[c]: controller.signal.aborted in call c
    posts,      \* posts[c]: the requests call c handed to fetch
    outcome     \* outcome[c]: the promise call c returned

vars == <<config, args, transport, pc, timer, aborted, posts, outcome>>

Calls == DOMAIN args

Pending == [state |-> "pending"]


\* the promise of call c settles with result, and the call is over
Settle(c, result) ==
    /\ outcome' = [outcome EXCEPT ![c] = result]
    /\ pc' = [pc EXCEPT ![c] = "done"]

\* the promise of call c rejects with error
Reject(c, error) == Settle(c, [state |-> "rejected", error |-> error])

\* request(endpoint, body) up to its first await: the timer is set and the
\* POST handed to fetch
StartRequest(c, endpoint, body) ==
    /\ timer' = [timer EXCEPT ![c] = "pending"]
    /\ posts' = [posts EXCEPT ![c] =
                    Append(@, [method |-> "POST", base |-> config.baseUrl,
                               path |-> endpoint, body |-> body])]
    /\ pc' = [pc EXCEPT ![c] = "fetch"]
    /\ UNCHANGED <<config, args, transport, aborted, outcome>>

\* Catch without its clearTimeout
CatchLeavesTimer(c, error) ==
    /\ Reject(c, catchClause(error, config.timeout))
    /\ UNCHANGED <<config, args, transport, timer, aborted, posts>>

\* the catch clause of request() in call c, for the error it caught
Catch(c, error) ==
    /\ timer' = [timer EXCEPT ![c] = clearTimeout(@)]
    /\ Reject(c, catchClause(error, config.timeout))
    /\ UNCHANGED <<config, args, transport, aborted, posts>>

\* analyze(text), up to the first await of its request
Analyze(c) ==
    /\ pc[c] = "start"
    /\ args[c].op = "analyze"
    /\ LET text == args[c].input
           err == validateText(text)
       IN  IF err # NoError
           THEN /\ Reject(c, err)
                /\ UNCHANGED <<config, args, transport, timer, aborted, posts>>
           ELSE StartRequest(c, "/api/v1/analyze", Obj([text |-> Str(Trim(text.s))]))

\* AnalyzeBatch with the timer set before the texts are validated
AnalyzeBatchTimerFirst(c) ==
    /\ pc[c] = "start"
    /\ args[c].op = "analyzeBatch"
    /\ LET texts == args[c].input
           err == validateBatchTexts(texts)
       IN  IF err # NoError
           THEN /\ Reject(c, err)
                /\ timer' = [timer EXCEPT ![c] = "pending"]
                /\ UNCHANGED <<config, args, transport, aborted, posts>>
           ELSE StartRequest(c, "/api/v1/analyze/batch",
                    Obj([texts |-> Arr([i \in 1..Len(texts.items) |->
                                           Str(Trim(texts.items[i].s))])]))

\* analyzeBatch(texts), up to the first await of its request
AnalyzeBatch(c) ==
    /\ pc[c] = "start"
    /\ args[c].op = "analyzeBatch"
    /\ LET texts == args[c].input
           err == validateBatchTexts(texts)
       IN  IF err # NoError
           THEN /\ Reject(c, err)
                /\ UNCHANGED <<config, args, transport, timer, aborted, posts>>
           ELSE StartRequest(c, "/api/v1/analyze/batch",
                    Obj([texts |-> Arr([i \in 1..Len(texts.items) |->
                                           Str(Trim(texts.items[i].s))])]))

\* TimerFires with one controller shared by the calls of the client
TimerFiresSharedController(c) ==
    /\ timer[c] = "pending"
    /\ timer' = [timer EXCEPT ![c] = "fired"]
    /\ aborted' = [d \in Calls |-> TRUE]
    /\ UNCHANGED <<config, args, transport, pc, posts, outcome>>

\* the timer of call c runs: its callback aborts the controller of call c
TimerFires(c) ==
    /\ timer[c] = "pending"
    /\ timer' = [timer EXCEPT ![c] = "fired"]
    /\ aborted' = [aborted EXCEPT ![c] = TRUE]
    /\ UNCHANGED <<config, args, transport, pc, posts, outcome>>

\* fetch rejects because its signal was aborted
FetchAborted(c) ==
    /\ pc[c] = "fetch"
    /\ aborted[c]
    /\ Catch(c, AbortError)

\* FetchFails with one retry: the first failure sends the POST again
FetchFailsRetriesOnce(c) ==
    /\ pc[c] = "fetch"
    /\ ~aborted[c]
    /\ transport[c].kind = "fail"
    /\ IF Len(posts[c]) < 2
       THEN /\ posts' = [posts EXCEPT ![c] = Append(@, @[1])]
            /\ UNCHANGED <<config, args, transport, pc, timer, aborted, outcome>>
       ELSE Catch(c, transport[c].error)

\* fetch rejects because the transport failed
FetchFails(c) ==
    /\ pc[c] = "fetch"
    /\ ~aborted[c]
    /\ transport[c].kind = "fail"
    /\ Catch(c, transport[c].error)

\* fetch resolves with the response's status and headers
FetchResponds(c) ==
    /\ pc[c] = "fetch"
    /\ ~aborted[c]
    /\ transport[c].kind = "response"
    /\ timer' = [timer EXCEPT ![c] = clearTimeout(@)]
    /\ pc' = [pc EXCEPT ![c] = IF IsOk(transport[c].status) THEN "json" ELSE "text"]
    /\ UNCHANGED <<config, args, transport, aborted, posts, outcome>>

\* response.text().catch(() => '') settles, and the block of !response.ok throws
ReadErrorBody(c) ==
    /\ pc[c] = "text"
    /\ transport[c].read # "hang"
    /\ LET responseText == IF transport[c].read = "ok" THEN transport[c].text ELSE ""
       IN  Catch(c, errorOfResponse(transport[c].status, transport[c].retryAfter,
                                    responseText))

\* response.json() settles: request() returns its value to the operation, or
\* its catch clause takes what it threw
ReadJson(c) ==
    /\ pc[c] = "json"
    /\ transport[c].read # "hang"
    /\ IF transport[c].read = "error" THEN Catch(c, FetchTypeError)
       ELSE LET parsed == JSONParse(transport[c].text)
            IN  IF ~parsed.ok THEN Catch(c, JsonSyntaxError)
                ELSE /\ Settle(c, IF args[c].op = "analyze"
                                  THEN analyzeResult(parsed.value)
                                  ELSE analyzeBatchResult(parsed.value))
                     /\ UNCHANGED <<config, args, transport, timer, aborted, posts>>

Next ==
    \/ \E c \in Calls : Analyze(c)
    \/ \E c \in Calls : AnalyzeBatch(c)
    \/ \E c \in Calls : TimerFires(c)
    \/ \E c \in Calls : FetchAborted(c)
    \/ \E c \in Calls : FetchFails(c)
    \/ \E c \in Calls : FetchResponds(c)
    \/ \E c \in Calls : ReadErrorBody(c)
    \/ \E c \in Calls : ReadJson(c)

(***************************************************************************)
(* The calls made and what the transport answers.                          *)
(***************************************************************************)
\* n copies of the text u, one after the other
Repeat(u, n) == [i \in 1..(n * Len(u)) |-> u[((i - 1) % Len(u)) + 1]]

\* the numbers of words of the texts: few, and around the limit
WordCounts ==
    {0, 1, 2, MAX_WORDS_PER_TEXT - 1}
        \cup MAX_WORDS_PER_TEXT..(MAX_WORDS_PER_TEXT + MaxExtra)

\* one word with the white space after or before it
WordUnits == {<<"a", " ">>, <<" ", "a">>, <<"a", "b", " ", "\t">>, <<"\n", " ", "a">>}

Texts ==
    {Repeat(u, n) : u \in WordUnits, n \in WordCounts}
        \cup {Repeat(u, n) \o <<"b">> : u \in WordUnits, n \in WordCounts}
        \cup {Repeat(<<" ">>, n) : n \in 1..2}

\* the arguments analyze is called with
TextArgs ==
    {Undef, Null, Num(0), Num(5), Arr(<<Str(<<"a">>)>>)} \cup {Str(t) : t \in Texts}

OkText == Str(<<"o", "k">>)

\* the elements of a batch other than OkText
OddElements ==
    <<Null, Str(<<>>), Num(5), Str(<<" ", "\t">>),
      Str(Repeat(<<"a", " ">>, MAX_WORDS_PER_TEXT + 1)),
      Str(Repeat(<<" ", "a">>, MAX_WORDS_PER_TEXT))>>

\* the batch of n texts that are OkText but at the positions of odd: there the
\* first holds the odd element k and the others the one after it
Batch(n, odd, k) ==
    Arr([i \in 1..n |->
            IF i \notin odd THEN OkText
            ELSE IF i = Min(odd) THEN OddElements[k]
            ELSE OddElements[(k % Len(OddElements)) + 1]])

BatchSizes ==
    {1, 2, 3} \cup MAX_BATCH_SIZE..(MAX_BATCH_SIZE + MaxExtra)

\* the arguments analyzeBatch is called with
BatchArgs ==
    {Undef, Null, Num(3), OkText, Arr(<<>>)}
        \cup {Batch(n, odd, k) : n \in BatchSizes, odd \in SUBSET {1, 2, 3, MAX_BATCH_SIZE},
                                 k \in 1..Len(OddElements)}

AllArgs ==
    {[op |-> "analyze", input |-> v] : v \in TextArgs}
        \cup {[op |-> "analyzeBatch", input |-> v] : v \in BatchArgs}

AnalyzeAB == [op |-> "analyze", input |-> Str(<<" ", "a", " ", "b">>)]
AnalyzeBlank == [op |-> "analyze", input |-> Str(<<" ", " ">>)]
BatchAB == [op |-> "analyzeBatch", input |-> Arr(<<Str(<<"a">>), Str(<<"b", " ">>)>>)]
BatchNull == [op |-> "analyzeBatch", input |-> Arr(<<Str(<<"a">>), Null>>)]

Hang == [kind |-> "hang"]
Fail(error) == [kind |-> "fail", error |-> error]
Response(status, retryAfter, read, text) ==
    [kind |-> "response", status |-> status, retryAfter |-> retryAfter,
     read |-> read, text |-> text]

\* the values of the Retry-After header; null when the response has none
RetryAfterHeaders ==
    {Null, Str(<<>>), Str(<<"5">>), Str(<<"1", "2", "0">>), Str(<<"0">>),
     Str(<<" ", "7">>), Str(<<"-", "3">>), Str(<<"5", "x">>), Str(<<"1", ".", "5">>),
     Str(<<"a", "b", "c">>), Str(<<"W", "e", "d", ",", " ", "2", "1">>)}

ErrorTexts ==
    NotJsonTexts \cup
    {"null", "42", "\"oops\"", "[]", "{}",
     "{\"detail\":\"boom\"}", "{\"message\":\"bad\"}", "{\"error\":\"oops\"}",
     "{\"detail\":\"boom\",\"message\":\"bad\",\"error\":\"oops\"}",
     "{\"message\":\"bad\",\"error\":\"oops\"}",
     "{\"detail\":\"\",\"message\":\"bad\"}",
     "{\"detail\":\"\",\"message\":\"\",\"error\":\"oops\"}",
     "{\"detail\":\"\",\"message\":\"\",\"error\":\"\"}",
     "{\"detail\":null,\"error\":\"oops\"}",
     "{\"detail\":[{\"msg\":\"bad\"}]}", "{\"detail\":7}",
     "{\"detail\":0,\"message\":\"bad\"}"}

SuccessTexts ==
    {TextJoy, TextSad, TextBatchJoySad, TextBatchSadJoy, TextBatchJoyCount5,
     TextBatchJoySadCount1, TextBatchNoCount, TextBatchEmpty, TextBatchNullItem,
     TextBatchNoResults}

Statuses == {200, 201, 400, RATE_LIMIT_STATUS, 500}

AllTransports ==
    {Hang, Fail(FetchTypeError), Fail(OtherError), Fail(ThrownString)}
        \cup {Response(st, h, "ok", tx) : st \in Statuses, h \in {Null, Str(<<"5">>)},
                                          tx \in ErrorTexts \cup SuccessTexts}
        \cup {Response(RATE_LIMIT_STATUS, h, rd, tx) :
                  h \in RetryAfterHeaders, rd \in {"ok", "error"},
                  tx \in {"", "{\"detail\":\"boom\"}"}}
        \cup {Response(st, Null, rd, "") : st \in Statuses, rd \in {"error", "hang"}}

\* the options the client is constructed with
AllOptions ==
    {[baseUrl |-> Undef, timeout |-> Undef],
     [baseUrl |-> Str(<<"u", "/">>), timeout |-> Num(50)],
     [baseUrl |-> Str(<<>>), timeout |-> Num(0)]}

\* the calls of the concurrent runs, each with what the transport does with it
Scenarios ==
    {<<AnalyzeAB, Response(200, Null, "ok", TextJoy)>>,
     <<AnalyzeAB, Hang>>,
     <<AnalyzeAB, Fail(FetchTypeError)>>,
     <<AnalyzeAB, Response(500, Null, "ok", "{\"detail\":\"boom\"}")>>,
     <<AnalyzeBlank, Response(200, Null, "ok", TextJoy)>>,
     <<BatchAB, Response(200, Null, "ok", TextBatchJoySad)>>,
     <<BatchAB, Response(RATE_LIMIT_STATUS, Str(<<"5">>), "error", "")>>,
     <<BatchAB, Response(200, Null, "hang", "")>>,
     <<BatchNull, Fail(OtherError)>>}

\* the state after construction, before any call ran
InitWith(options, calls) ==
    /\ config = Constructor(options)
    /\ pc = [c \in calls |-> "start"]
    /\ timer = [c \in calls |-> "none"]
    /\ aborted = [c \in calls |-> FALSE]
    /\ posts = [c \in calls |-> <<>>]
    /\ outcome = [c \in calls |-> Pending]

\* several calls in flight on one client
Init ==
    /\ \E sc \in [1..MaxCalls -> Scenarios] :
          /\ args = [c \in 1..MaxCalls |-> sc[c][1]]
          /\ transport = [c \in 1..MaxCalls |-> sc[c][2]]
    /\ \E options \in AllOptions : InitWith(options, 1..MaxCalls)

Spec == Init /\ [][Next]_vars

\* one call, over all the arguments
InitValidation ==
    /\ args \in [{1} -> AllArgs]
    /\ transport \in [{1} -> {Response(200, Null, "ok", TextJoy), Fail(FetchTypeError),
                               Response(500, Null, "ok", "{\"detail\":\"boom\"}")}]
    /\ InitWith([baseUrl |-> Undef, timeout |-> Undef], {1})

SpecValidation == InitValidation /\ [][Next]_vars

\* one call, over all the transport does
InitTransport ==
    /\ args \in [{1} -> {AnalyzeAB, BatchAB}]
    /\ transport \in [{1} -> AllTransports]
    /\ \E options \in AllOptions : InitWith(options, {1})

SpecTransport == InitTransport /\ [][Next]_vars

\* what the transport does in the runs where progress is observed: it answers
\* in full, fails, never answers, or answers and never finishes the body
ProgressTransports ==
    {sc[2] : sc \in Scenarios}
        \cup {Fail(OtherError), Fail(ThrownString)}
        \cup {Response(st, Null, rd, "") : st \in Statuses, rd \in {"error", "hang"}}

\* one call, valid or not, over what the transport does
InitProgress ==
    /\ args \in [{1} -> {AnalyzeAB, AnalyzeBlank, BatchAB, BatchNull}]
    /\ transport \in [{1} -> ProgressTransports]
    /\ \E options \in AllOptions : InitWith(options, {1})

\* every step that can be taken is taken in the end: the code runs on when a
\* promise it awaits settles, the timer runs when its delay has passed, and the
\* transport delivers what it has to deliver
SpecProgress ==
    /\ InitProgress
    /\ [][Next]_vars
    /\ WF_vars(Analyze(1))
    /\ WF_vars(AnalyzeBatch(1))
    /\ WF_vars(TimerFires(1))
    /\ WF_vars(FetchAborted(1))
    /\ WF_vars(FetchFails(1))
    /\ WF_vars(FetchResponds(1))
    /\ WF_vars(ReadErrorBody(1))
    /\ WF_vars(ReadJson(1))


(***************************************************************************)
(* The claims.                                                             *)
(***************************************************************************)
\* the validator throws on the argument of call c
FailsValidation(c) ==
    IF args[c].op = "analyze" THEN validateText(args[c].input) # NoError
    ELSE validateBatchTexts(args[c].input) # NoError

RejectedWith(c, class) ==
    outcome[c].state = "rejected" /\ outcome[c].error.class = class

\* the response of call c reached request(): fetch resolved
Responded(c) == pc[c] \in {"text", "json", "done"} /\ timer[c] = "cleared"
                    /\ transport[c].kind = "response"

\* C1: a call whose input fails the client-side validation rejects with a
\* ValidationError, hands no request to fetch and never starts a timer.
C1_InvalidInputNeverReachesNetwork ==
    \A c \in Calls :
        FailsValidation(c) =>
            /\ posts[c] = <<>>
            /\ timer[c] = "none"
            /\ ~aborted[c]
            /\ pc[c] \in {"start", "done"}
            /\ pc[c] = "done" => RejectedWith(c, "ValidationError")

\* a batch whose validation failed has been rejected
C1_Witness ==
    \E c \in Calls :
        /\ args[c].op = "analyzeBatch"
        /\ args[c].input.t = "array"
        /\ FailsValidation(c)
        /\ RejectedWith(c, "ValidationError")

\* C2: once the timer of a dispatched request has run before any response,
\* the request is aborted, and the call fails with nothing but a TimeoutError
\* whose timeout is the client's configured timeout.
C2_TimeoutRejectsWithConfiguredTimeout ==
    \A c \in Calls :
        timer[c] = "fired" =>
            /\ aborted[c]
            /\ Len(posts[c]) = 1
            /\ pc[c] \in {"fetch", "done"}
            /\ pc[c] = "done" =>
                  /\ RejectedWith(c, "TimeoutError")
                  /\ outcome[c].error.timeout = config.timeout

\* a call timed out on a client configured with a timeout of 50
C2_Witness ==
    \E c \in Calls :
        /\ timer[c] = "fired"
        /\ config.timeout = 50
        /\ RejectedWith(c, "TimeoutError")

\* C3: whenever a dispatched request has settled, by success, HTTP error,
\* 429, timeout or transport failure, its timer is no longer pending.
C3_NoTimerPendingAfterSettle ==
    \A c \in Calls :
        (pc[c] = "done" /\ posts[c] # <<>>) => timer[c] \in {"cleared", "fired"}

\* a request that failed in the transport has settled with its timer cleared
C3_Witness ==
    \E c \in Calls :
        /\ transport[c].kind = "fail"
        /\ RejectedWith(c, "NetworkError")
        /\ timer[c] = "cleared"


\* the header can be parsed as an integer: after leading white space and an
\* optional sign it begins with a digit
IsIntegerText(h) ==
    /\ h.t = "string"
    /\ LET body == Trim(h.s)
           digits == IF Len(body) > 0 /\ body[1] \in {"+", "-"} THEN Tail(body) ELSE body
       IN  Len(digits) > 0 /\ IsDigit(digits[1])

\* the integer such a header begins with
IntegerOfText(h) ==
    LET body == Trim(h.s)
        digits == IF body[1] \in {"+", "-"} THEN Tail(body) ELSE body
        value == DigitPrefix(digits, 1, 0)
    IN  IF body[1] = "-" THEN 0 - value ELSE value

\* C4: on a response of status 429 the call fails with RateLimitError, whatever
\* the body; retryAfter is the integer of the Retry-After header when the
\* header can be parsed as an integer, and undefined when the header is
\* missing, empty or cannot be parsed as an integer.
C4_RetryAfterIntegerOrAbsent ==
    \A c \in Calls :
        (Responded(c) /\ pc[c] = "done" /\ transport[c].status = RATE_LIMIT_STATUS) =>
            /\ RejectedWith(c, "RateLimitError")
            /\ outcome[c].error.retryAfter =
                  IF IsIntegerText(transport[c].retryAfter)
                  THEN Num(IntegerOfText(transport[c].retryAfter))
                  ELSE Undef

\* the first of the fields detail, message, error the body's JSON object has
FirstPresent(o) ==
    IF o.t # "object" THEN Undef
    ELSE IF "detail" \in DOMAIN o.props THEN o.props.detail
    ELSE IF "message" \in DOMAIN o.props THEN o.props.message
    ELSE IF "error" \in DOMAIN o.props THEN o.props["error"]
    ELSE Undef

\* the first of the fields detail, message, error that is truthy
FirstTruthy(o) ==
    IF o.t # "object" THEN Undef
    ELSE IF "detail" \in DOMAIN o.props /\ Truthy(o.props.detail) THEN o.props.detail
    ELSE IF "message" \in DOMAIN o.props /\ Truthy(o.props.message) THEN o.props.message
    ELSE IF "error" \in DOMAIN o.props /\ Truthy(o.props["error"]) THEN o.props["error"]
    ELSE Undef

\* the body of the response of call c, as request() read it
BodyRead(c) == IF transport[c].read = "ok" THEN transport[c].text ELSE ""

\* the JSON value of that body, undefined when it is no JSON
BodyJson(c) ==
    IF BodyRead(c) \in NotJsonTexts THEN Undef ELSE JsonValue(BodyRead(c))

GenericMessage(status) ==
    Tpl("API request failed with status ${response.status}", <<status>>)

\* call c settled on a response whose status is neither a success nor 429
SettledOnApiError(c) ==
    /\ Responded(c)
    /\ pc[c] = "done"
    /\ ~IsOk(transport[c].status)
    /\ transport[c].status # RATE_LIMIT_STATUS

\* C5, as claimed: the ApiError carries the status and the raw body, and its
\* message is the first PRESENT of detail, message, error, the generic
\* message when the body is no JSON or has none of them.
C5_MessageIsFirstPresentField ==
    \A c \in Calls :
        SettledOnApiError(c) =>
            /\ RejectedWith(c, "ApiError")
            /\ outcome[c].error.statusCode = transport[c].status
            /\ outcome[c].error.responseBody = BodyRead(c)
            /\ outcome[c].error.message =
                  IF FirstPresent(BodyJson(c)) = Undef
                  THEN GenericMessage(transport[c].status)
                  ELSE ToString(FirstPresent(BodyJson(c)))

\* C5, amended: the ApiError carries the status and the raw body (the empty
\* string when the body cannot be read), and its message is the string of the
\* first TRUTHY of detail, message, error, the generic message when the body
\* is no JSON, no JSON object, or has none of them truthy.
C5_MessageIsFirstTruthyField ==
    \A c \in Calls :
        SettledOnApiError(c) =>
            /\ RejectedWith(c, "ApiError")
            /\ outcome[c].error.statusCode = transport[c].status
            /\ outcome[c].error.responseBody = BodyRead(c)
            /\ outcome[c].error.message =
                  IF FirstTruthy(BodyJson(c)) = Undef
                  THEN GenericMessage(transport[c].status)
                  ELSE ToString(FirstTruthy(BodyJson(c)))

\* an ApiError whose message is the body's message field, its detail being empty
C5_Witness ==
    \E c \in Calls :
        /\ SettledOnApiError(c)
        /\ transport[c].text = "{\"detail\":\"\",\"message\":\"bad\"}"
        /\ transport[c].read = "ok"
        /\ transport[c].status = 500
        /\ outcome[c].error.message = Bad

\* C6: the result of analyzeBatch on a successful response has count equal to
\* the length of its results, whatever the server sent.
C6_CountIsResultsLength ==
    \A c \in Calls :
        (args[c].op = "analyzeBatch" /\ outcome[c].state = "resolved") =>
            Get(outcome[c].value, "count")
                = Num(Len(Get(outcome[c].value, "results").items))

\* C7: every rejection is one of the five kinds of the taxonomy; a transport
\* failure and a JSON parse failure of a 2xx body become NetworkError with the
\* error caught as cause, and no other error reaches the caller.
C7_RejectionsAreOfTheTaxonomy ==
    \A c \in Calls :
        outcome[c].state = "rejected" =>
            /\ IsEmotionAnalyzerError(outcome[c].error)
            /\ (timer[c] = "fired") <=> RejectedWith(c, "TimeoutError")
            /\ (transport[c].kind = "fail" /\ timer[c] # "fired") =>
                  /\ RejectedWith(c, "NetworkError")
                  /\ transport[c].error.isError =>
                        outcome[c].error.cause = transport[c].error
            /\ (Responded(c) /\ IsOk(transport[c].status)) =>
                  /\ RejectedWith(c, "NetworkError")
                  /\ outcome[c].error.cause \in {JsonSyntaxError, FetchTypeError}


\* the positions of s where a word begins: a character that is no white
\* space, at the start of s or after white space
WordStarts(s) == {i \in 1..Len(s) : ~IsSpace(s[i]) /\ (i = 1 \/ IsSpace(s[i - 1]))}

\* the number of white-space-delimited non-empty tokens of s
TokenCount(s) == Cardinality(WordStarts(s))

\* a text the validation is to let pass
GoodText(v) ==
    /\ v.t = "string"
    /\ TokenCount(v.s) >= 1
    /\ TokenCount(v.s) <= MAX_WORDS_PER_TEXT

\* call c went past its validation and handed its request to fetch
PassedValidation(c) ==
    /\ Len(posts[c]) = 1
    /\ ~RejectedWith(c, "ValidationError")

\* C8: analyze lets pass every string that is non-empty after trimming and
\* has at most 100 tokens (100 included), and fails with a ValidationError of
\* field "text" on every other argument, its message citing the count and the
\* maximum 100 when the text has more than 100 tokens.
C8_ValidateTextAcceptsUpTo100Words ==
    \A c \in Calls :
        (args[c].op = "analyze" /\ pc[c] # "start") =>
            IF GoodText(args[c].input) THEN PassedValidation(c)
            ELSE /\ RejectedWith(c, "ValidationError")
                 /\ outcome[c].error.field = "text"
                 /\ posts[c] = <<>>
                 /\ (args[c].input.t = "string"
                        /\ TokenCount(args[c].input.s) > MAX_WORDS_PER_TEXT) =>
                       outcome[c].error.message.nums
                           = <<TokenCount(args[c].input.s), MAX_WORDS_PER_TEXT>>

\* a text of 101 words was rejected
C8_Witness ==
    \E c \in Calls :
        /\ args[c].op = "analyze"
        /\ args[c].input.t = "string"
        /\ TokenCount(args[c].input.s) = MAX_WORDS_PER_TEXT + 1
        /\ RejectedWith(c, "ValidationError")
        /\ outcome[c].error.message.nums = <<MAX_WORDS_PER_TEXT + 1, MAX_WORDS_PER_TEXT>>

\* the positions of the elements of a batch the single-text checks refuse
InvalidPositions(items) == {i \in 1..Len(items) : ~GoodText(items[i])}

\* C9: analyzeBatch checks that its argument is a sequence, then that it is
\* not empty, then that it has at most 10 elements, each failing with field
\* "texts", and only then the elements in index order: the one error thrown
\* cites the smallest index of an invalid element.
C9_BatchValidationOrder ==
    \A c \in Calls :
        (args[c].op = "analyzeBatch" /\ pc[c] # "start") =>
            LET texts == args[c].input
                err == outcome[c].error
            IN  IF texts.t # "array"
                THEN /\ RejectedWith(c, "ValidationError")
                     /\ err.field = "texts"
                     /\ err.message = Tpl("Texts must be an array", <<>>)
                ELSE IF Len(texts.items) = 0
                THEN /\ RejectedWith(c, "ValidationError")
                     /\ err.field = "texts"
                     /\ err.message = Tpl("At least one text is required", <<>>)
                ELSE IF Len(texts.items) > MAX_BATCH_SIZE
                THEN /\ RejectedWith(c, "ValidationError")
                     /\ err.field = "texts"
                     /\ err.message.nums = <<Len(texts.items), MAX_BATCH_SIZE>>
                ELSE IF InvalidPositions(texts.items) # {}
                THEN /\ RejectedWith(c, "ValidationError")
                     /\ err.field = "texts"
                     /\ err.message.nums[1] = Min(InvalidPositions(texts.items)) - 1
                     /\ posts[c] = <<>>
                ELSE PassedValidation(c)

\* a batch with several invalid elements, the first of them not at index 0,
\* was rejected
C9_Witness ==
    \E c \in Calls :
        /\ args[c].op = "analyzeBatch"
        /\ args[c].input.t = "array"
        /\ Len(args[c].input.items) <= MAX_BATCH_SIZE
        /\ Cardinality(InvalidPositions(args[c].input.items)) >= 2
        /\ Min(InvalidPositions(args[c].input.items)) > 1
        /\ RejectedWith(c, "ValidationError")

\* what of the state belongs to call c
CallState(c) == <<pc[c], timer[c], aborted[c], posts[c], outcome[c]>>

\* a step changes the state of one call at most, and aborts a call only by
\* the expiry of that call's own timer
StepOfOneCall ==
    /\ \E c \in Calls : \A d \in Calls \ {c} : CallState(d)' = CallState(d)
    /\ \A c \in Calls :
          (aborted[c]' # aborted[c]) => (timer[c] = "pending" /\ timer[c]' = "fired")
    /\ <<config, args, transport>>' = <<config, args, transport>>

\* two settled calls with the same argument, the same response and the same
\* fate of their timers settled alike
SameInputSameOutcome ==
    \A c, d \in Calls :
        (/\ pc[c] = "done" /\ pc[d] = "done"
         /\ args[c] = args[d]
         /\ transport[c] = transport[d]
         /\ timer[c] = timer[d]) => outcome[c] = outcome[d]

\* C10: concurrent calls on one client are independent: every step is the
\* step of one call and leaves the others and the configuration as they are,
\* the expiry of a call's timer aborts that call only, and the outcome of a
\* call is decided by its own argument and its own response.
C10_CallsAreIndependent ==
    [][StepOfOneCall]_vars /\ []SameInputSameOutcome

\* a call timed out while another one is in flight and not aborted
C10_Witness ==
    \E c, d \in Calls :
        /\ c # d
        /\ RejectedWith(c, "TimeoutError")
        /\ pc[d] = "fetch"
        /\ timer[d] = "pending"
        /\ ~aborted[d]


\* a step sends a POST only out of the start of a call, and leaves a settled
\* promise as it settled
NoRetryStep ==
    \A c \in Calls :
        /\ posts[c]' # posts[c] => (pc[c] = "start" /\ posts[c] = <<>>)
        /\ outcome[c] # Pending => outcome[c]' = outcome[c]
        /\ outcome[c]' # outcome[c] => (pc[c] # "done" /\ pc[c]' = "done")

\* C11: there is no retry: a call hands at most one POST to fetch and its
\* promise settles at most once, whatever failure occurs.
C11_AtMostOnePostAndOneSettlement ==
    [](\A c \in Calls : Len(posts[c]) <= 1) /\ [][NoRetryStep]_vars

\* a call that failed in the transport was rejected after its one POST
C11_Witness ==
    \E c \in Calls :
        /\ transport[c] = Fail(OtherError)
        /\ pc[c] = "done"
        /\ outcome[c].state = "rejected"
        /\ Len(posts[c]) = 1


\* the result equals the wire response, field for field
MatchesWire(result, wire) ==
    /\ result.t = "object"
    /\ DOMAIN result.props = {"primaryEmotion", "confidence", "allEmotions"}
    /\ result.props.primaryEmotion = Get(wire, "primary_emotion")
    /\ result.props.confidence = Get(wire, "confidence")
    /\ result.props.allEmotions = Get(wire, "all_emotions")

\* call c received a 2xx response whose body was read and is JSON
SuccessWithJson(c) ==
    /\ Responded(c)
    /\ pc[c] = "done"
    /\ IsOk(transport[c].status)
    /\ transport[c].read = "ok"
    /\ transport[c].text \notin NotJsonTexts

\* the body is a JSON value with properties to read, as analyze expects it
IsWireObject(wire) == ~Nullish(wire)

\* the body has an array of values with properties to read as results, as
\* analyzeBatch expects it
IsWireBatch(wire) ==
    /\ ~Nullish(wire)
    /\ Get(wire, "results").t = "array"
    /\ \A i \in 1..Len(Get(wire, "results").items) :
          ~Nullish(Get(wire, "results").items[i])

\* C12: on a 2xx response with a body of the wire shape, analyze resolves to
\* the result whose primaryEmotion, confidence and allEmotions are the wire's
\* primary_emotion, confidence and all_emotions, and analyzeBatch to the
\* transforms of the response's results, as many and in the order received.
C12_ResultIsTheTransformOfTheWire ==
    \A c \in Calls :
        SuccessWithJson(c) =>
            LET wire == JsonValue(transport[c].text)
                value == outcome[c].value
            IN  /\ (args[c].op = "analyze" /\ IsWireObject(wire)) =>
                      /\ outcome[c].state = "resolved"
                      /\ MatchesWire(value, wire)
                /\ (args[c].op = "analyzeBatch" /\ IsWireBatch(wire)) =>
                      /\ outcome[c].state = "resolved"
                      /\ Get(value, "results").t = "array"
                      /\ Len(Get(value, "results").items)
                            = Len(Get(wire, "results").items)
                      /\ \A i \in 1..Len(Get(wire, "results").items) :
                            MatchesWire(Get(value, "results").items[i],
                                        Get(wire, "results").items[i])

\* analyzeBatch resolved to two results, the sad one before the joyful one
C12_Witness ==
    \E c \in Calls :
        /\ args[c].op = "analyzeBatch"
        /\ SuccessWithJson(c)
        /\ transport[c].text = TextBatchSadJoy
        /\ outcome[c].state = "resolved"
        /\ Len(Get(outcome[c].value, "results").items) = 2
        /\ Get(Get(outcome[c].value, "results").items[1], "primaryEmotion") = Sad
        /\ Get(Get(outcome[c].value, "results").items[2], "primaryEmotion") = Joy


\* C13: a call that passes validation eventually settles, given that its timer
\* fires when it is still pending, also when the status and the headers of the
\* response arrive and its body never does.
C13_ValidCallEventuallySettles ==
    (pc[1] = "start" /\ ~FailsValidation(1)) ~> (outcome[1] # Pending)

=============================================================================
